---------------------------- MODULE Spec2Model ----------------------------
(***************************************************************************)
(* A model of the squoosh-api image compression service:                   *)
(*   - routes/compression.py : the two POST handlers of /compress          *)
(*   - models/schemas.py     : the request validation done by the framework*)
(*   - services/squoosh_service.py : SquooshService, which drives a        *)
(*     headless Chrome on squoosh.app and polls a temporary directory for  *)
(*     the downloaded result.                                              *)
(*   - main.py : the application's handler for uncaught exceptions        *)
(* Spec follows one request from its arrival to its response; SpecTwo      *)
(* follows two requests served at the same time.  The browser             *)
(* and the Squoosh page are the environment: every call on them that can   *)
(* raise is a nondeterministic choice between its outcomes, and the        *)
(* browser writes its download while the service polls for it.  The local  *)
(* file system does what it is asked: mkdtemp, open, remove and rmtree do   *)
(* not fail on their own.                                                  *)
(***************************************************************************)
EXTENDS Integers, Sequences, FiniteSets, TLC

\* Largest size of a request's image buffer.
MaxLen == 2

\* Largest size of the file the encoder produces.
MaxOut == 2

\* schemas.py: quality: int = Field(default=80, ge=1, le=100)
MinQuality == 1

MaxQuality == 100

\* _download_compressed: max_attempts = 30
MaxAttempts == 30

\* The wait loop given one more pass.
MutOneMorePass == 30 + 1

\* _download_compressed: for attempt in range(30) of "Wait for download"

WaitAttempts == 30

(***************************************************************************)
(* Strings.  A format token is a sequence of one-character strings, so     *)
(* that str.lower() is computed character by character.                    *)
(***************************************************************************)
UpperOf ==
    [c \in {"a","b","e","f","g","i","j","m","n","o","p","r","s","v","w","x","z"} |->
        CASE c = "a" -> "A" [] c = "b" -> "B" [] c = "e" -> "E" [] c = "f" -> "F"
          [] c = "g" -> "G" [] c = "i" -> "I" [] c = "j" -> "J" [] c = "m" -> "M"
          [] c = "n" -> "N" [] c = "o" -> "O" [] c = "p" -> "P" [] c = "r" -> "R"
          [] c = "s" -> "S" [] c = "v" -> "V" [] c = "w" -> "W" [] c = "x" -> "X"
          [] c = "z" -> "Z"]

LowerLetters == DOMAIN UpperOf

UpperLetters == {UpperOf[c] : c \in LowerLetters}

\* str.lower() on one character: an upper-case letter becomes its lower-case
\* letter, every other character is kept.
LowerChar(c) ==
    IF c \in UpperLetters
    THEN CHOOSE l \in LowerLetters : UpperOf[l] = c
    ELSE c

lower(s) == [i \in DOMAIN s |-> LowerChar(s[i])]

UpperChar(c) == IF c \in LowerLetters THEN UpperOf[c] ELSE c

\* The case variants of a token that requests are drawn from.
upper(s) == [i \in DOMAIN s |-> UpperChar(s[i])]

capitalize(s) == [i \in DOMAIN s |-> IF i = 1 THEN UpperChar(s[i]) ELSE s[i]]

T_webp == <<"w","e","b","p">>
T_mozjpeg == <<"m","o","z","j","p","e","g">>
T_jpg == <<"j","p","g">>
T_jpeg == <<"j","p","e","g">>
T_avif == <<"a","v","i","f">>
T_oxipng == <<"o","x","i","p","n","g">>
T_png == <<"p","n","g">>
T_browserjpeg == <<"b","r","o","w","s","e","r","j","p","e","g">>
T_browserpng == <<"b","r","o","w","s","e","r","p","n","g">>
T_gif == <<"g","i","f">>

\* schemas.py: the closed enumeration of the tokens a request may carry.
CompressionFormat ==
    {T_webp, T_mozjpeg, T_avif, T_oxipng, T_jpeg, T_jpg, T_png}

\* _set_format: the keys of format_map.
FormatMapKeys ==
    {T_webp, T_mozjpeg, T_jpg, T_jpeg, T_avif, T_oxipng, T_png,
     T_browserjpeg, T_browserpng}

\* _set_format: format_map[key], the value of the Squoosh encoder <select>.
format_map(key) ==
    CASE key = T_webp -> "webP"
      [] key = T_mozjpeg -> "mozJPEG"
      [] key = T_jpg -> "mozJPEG"
      [] key = T_jpeg -> "mozJPEG"
      [] key = T_avif -> "avif"
      [] key = T_oxipng -> "oxiPNG"
      [] key = T_png -> "oxiPNG"
      [] key = T_browserjpeg -> "browserJPEG"
      [] key = T_browserpng -> "browserPNG"

\* format_type looked up as it is, without .lower()
MutNoLower(format_type) == format_type

\* The key format_value is looked up under: format_type.lower()

FormatKey(format_type) == lower(format_type)

\* _set_format: format_value = format_map.get(format_type.lower(), "webP")
FormatValue(format_type) ==
    IF FormatKey(format_type) \in FormatMapKeys
    THEN format_map(FormatKey(format_type))
    ELSE "webP"

\* _set_format: if format_type.lower() in ['webp','mozjpeg','jpg','jpeg','avif']
QualityFormats == {T_webp, T_mozjpeg, T_jpg, T_jpeg, T_avif}

AdjustsQuality(format_type) == lower(format_type) \in QualityFormats

BaseTokens ==
    {T_webp, T_mozjpeg, T_jpg, T_jpeg, T_avif, T_oxipng, T_png,
     T_browserjpeg, T_browserpng, T_gif, <<>>}

Tokens == BaseTokens \cup {upper(t) : t \in BaseTokens}
                     \cup {capitalize(t) : t \in BaseTokens}


(***************************************************************************)
(* Byte buffers.  A buffer is its length and a tag for its content: the    *)
(* empty buffer, bytes that PIL can verify as an image (an opaque one, or  *)
(* one with an alpha channel or a palette), bytes it cannot, or the output *)
(* of one of the Squoosh encoders.  NoBytes is Python's None.              *)
(***************************************************************************)
NoBytes == [size |-> -1, kind |-> "None"]

EmptyBuffer == [size |-> 0, kind |-> "empty"]

len(b) == b.size

\* The contents Image.open and verify accept: "image" is an opaque image,
\* "alpha_image" one of a mode with an alpha channel or a palette.
ImageKinds == {"image", "alpha_image"}

ImageBuffers ==
    {[size |-> n, kind |-> "image"] : n \in 1..MaxLen}
    \cup {[size |-> MaxLen, kind |-> "alpha_image"]}

GarbageBuffers == {[size |-> n, kind |-> "garbage"] : n \in 1..MaxLen}

RequestBuffers == {EmptyBuffer} \cup GarbageBuffers \cup ImageBuffers

\* The lengths get_compression_stats is called with directly: the short
\* buffers, a length whose reduction falls exactly between two hundredths
\* (31/32), and the 4000 and 1200 bytes of the documented example.
StatsSizes == (1..MaxLen) \cup {32, 1200, 4000}

StatsBuffers ==
    {EmptyBuffer} \cup
    {[size |-> n, kind |-> k] : n \in StatsSizes, k \in {"image", "garbage"}}

(***************************************************************************)
(* get_compression_stats.  Percentages and ratios are kept in hundredths.  *)
(* round(x, 2) returns the nearest hundredth; where num/den lies exactly   *)
(* between two hundredths the double that x is decides, so either          *)
(* neighbour is a possible result.                                         *)
(***************************************************************************)
\* The hundredths cut off instead of rounded.
MutTruncate(num, den) == {num \div den}

round2(num, den) ==
    LET q == num \div den
        r == num % den
    IN  IF 2 * r < den THEN {q}
        ELSE IF 2 * r > den THEN {q + 1}
        ELSE {q, q + 1}

NoStats ==
    [raised |-> "None", original_size |-> -1, compressed_size |-> -1,
     reduction_percent |-> 0, compression_ratio |-> 0]

StatsRaise(type) == [NoStats EXCEPT !.raised = type]

\* The possible outcomes of get_compression_stats(original_bytes,
\* compressed_bytes): the returned dict, or the exception raised.
get_compression_stats(original_bytes, compressed_bytes) ==
    LET original_size == len(original_bytes)
        compressed_size == len(compressed_bytes)
    IN  IF original_size = 0
        THEN {StatsRaise("ZeroDivisionError")}
        ELSE IF compressed_size = 0
        THEN {StatsRaise("ZeroDivisionError")}
        ELSE {[raised |-> "None",
               original_size |-> original_size,
               compressed_size |-> compressed_size,
               reduction_percent |-> rp,
               compression_ratio |-> cr] :
                 rp \in round2((original_size - compressed_size) * 100 * 100,
                               original_size),
                 cr \in round2(original_size * 100, compressed_size)}

(***************************************************************************)
(* Requests.                                                               *)
(***************************************************************************)
Qualities == {0, 1, 80, 100, 101}

HttpEntries == {"base64", "upload"}

ContentTypes == {"None", "text/plain", "image/png"}

\* The image_base64 string of a request: whether it carries a data-URL
\* prefix and whether its body is well-formed base64.
Base64Payloads == [dataUrl : BOOLEAN, ok : BOOLEAN]

DefaultPayload == [dataUrl |-> FALSE, ok |-> TRUE]

Request(entry, format, quality, payload, content_type, bytes, compressed) ==
    [entry |-> entry, format |-> format, quality |-> quality,
     image_base64 |-> payload, content_type |-> content_type,
     bytes |-> bytes, compressed |-> compressed]

Base64Requests ==
    {Request("base64", f, q, p, "None", b, NoBytes) :
        f \in Tokens, q \in Qualities,
        p \in {x \in Base64Payloads : x.ok}, b \in RequestBuffers}
    \cup
    {Request("base64", f, q, p, "None", EmptyBuffer, NoBytes) :
        f \in Tokens, q \in Qualities,
        p \in {x \in Base64Payloads : ~x.ok}}

UploadRequests ==
    {Request("upload", f, q, DefaultPayload, ct, b, NoBytes) :
        f \in Tokens, q \in Qualities, ct \in ContentTypes,
        b \in RequestBuffers}

\* compress_image_from_bytes called on a fresh SquooshService by a caller
\* other than the two handlers.
DirectCalls ==
    {Request("direct", f, q, DefaultPayload, "None", b, NoBytes) :
        f \in Tokens, q \in Qualities, b \in RequestBuffers}

\* get_compression_stats called directly.
StatsCalls ==
    {Request("stats", T_webp, 80, DefaultPayload, "None", o, c) :
        o \in StatsBuffers, c \in StatsBuffers}

\* A request to a route that raises an exception no handler of the route
\* catches.
UnhandledRequests ==
    {Request("unhandled", T_webp, 80, DefaultPayload, "None", EmptyBuffer,
             NoBytes)}

\* The requests that come through the web application.
WebEntries == HttpEntries \cup {"unhandled"}

Requests ==
    Base64Requests \cup UploadRequests \cup DirectCalls \cup StatsCalls
    \cup UnhandledRequests

\* The range of the docstring of compress_image_from_bytes, 0-100.
MutQualityFromZero(q) == q >= 0 /\ q <= MaxQuality

\* Field(ge=1, le=100) / Form(ge=1, le=100)

QualityInRange(q) == q >= MinQuality /\ q <= MaxQuality

\* file.content_type and file.content_type.startswith('image/')
IsImageContentType(ct) == ct # "None" /\ ct \in {"image/png"}

\* validate_base64: strip a data-URL prefix, then base64.b64decode(v)
StripDataUrl(payload) == [payload EXCEPT !.dataUrl = FALSE]

ValidBase64(payload) == payload.ok

\* base64.b64decode(request.image_base64) in the handler
B64DecodeOk(payload) == payload.ok /\ ~payload.dataUrl


(***************************************************************************)
(* State.                                                                  *)
(***************************************************************************)
VARIABLES
    debug,            \* whether the web application's environment sets
                      \* DEBUG (a direct caller of the service has none)
    req,              \* the request, as it arrived
    pc,               \* where the request is in the code
    image_bytes,      \* the handler's (or caller's) image_bytes
    squoosh,          \* the handler's squoosh: "None" or "service"
    driver,           \* self.driver: "None" or "chrome"
    chrome,           \* the browser process: "none", "running", "quit"
    temp_dir,         \* self.temp_dir on disk: "none", "exists", "deleted"
    files,            \* the files of temp_dir: name -> content
    temp_input_path,  \* "None" or the name of the temporary input file
    page,             \* the Squoosh editor as the browser holds it
    download,         \* the browser's download of the encoded file
    files_before,     \* _download_compressed: the directory snapshot
    attempt,          \* _download_compressed: the running loop's counter
    compressed_path,  \* the path _download_compressed returned, or "None"
    compressed_bytes, \* what compress_image_from_bytes returned
    stats,            \* what get_compression_stats returned or raised
    exc,              \* the exception in flight, or the last one handled
    response,         \* the HTTP response, or the direct call's outcome
    log,              \* the log records written so far
    calls             \* the operations invoked so far ("return": the
                      \* return of compress_image_from_bytes)

\* Two requests served at the same time, each by its own handler call.
VARIABLES
    services,         \* per request: the handler's position, its
                      \* SquooshService's fields, what it returned
    disk,             \* the temporary directories ever created, in order
    browsers,         \* per request: the Chrome its driver started
    touched           \* <<r, operation, owner>>: request r read, returned,
                      \* deleted or quit something that owner created

twoVars == <<services, disk, browsers, touched>>

singleVars ==
    <<debug, req, pc, image_bytes, squoosh, driver, chrome, temp_dir, files,
      temp_input_path, page, download, files_before, attempt,
      compressed_path, compressed_bytes, stats, exc, response, log, calls>>

vars == <<singleVars, twoVars>>

requestVars == <<req, image_bytes>>

serviceVars == <<squoosh, driver, chrome, temp_dir>>

browserVars == <<page, download>>

downloadVars == <<files_before, attempt, compressed_path>>

resultVars == <<compressed_bytes, stats, response>>

NoFiles == [n \in {} |-> NoBytes]

NoPage == [loaded |-> FALSE, uploaded |-> FALSE, image |-> "none",
           format |-> "none", quality |-> -1]

NoDownload == [phase |-> "none", total |-> 0, kind |-> "none"]

NoExc == [type |-> "None", text |-> "None", status |-> 0]

\* An exception other than HTTPException, and the HTTPException of a status.
Exc(type, text) == [type |-> type, text |-> text, status |-> 0]

HTTPException(status, text) ==
    [type |-> "HTTPException", text |-> text, status |-> status]

NoResponse ==
    [status |-> 0, detail |-> "None", cause |-> "None", raised |-> "None",
     format |-> <<>>, quality |-> -1, stats |-> NoStats]

\* An error response: the status, the fixed part of its detail, and the
\* exception text that the detail embeds ("None": none).
ErrorResponse(status, detail, cause) ==
    [NoResponse EXCEPT !.status = status, !.detail = detail, !.cause = cause]

Info(event, value) == [level |-> "INFO", event |-> event, value |-> value]

Warning(event, value) == [level |-> "WARNING", event |-> event, value |-> value]

Reqs == {1, 2}

\* A file of a temporary directory: who created it, and what it is.
NoFile == [owner |-> 0, kind |-> "None"]

OwnedFile(r, kind) == [owner |-> r, kind |-> kind]

NoOwnedFiles == [n \in {} |-> NoFile]

\* A handler call before "squoosh = SquooshService()": temp_dir and driver
\* are 0 where the code has no service yet, or None.
NoService ==
    [pc |-> "request", temp_dir |-> 0, driver |-> 0,
     temp_input_path |-> "None", files_before |-> {}, attempt |-> 0,
     compressed_path |-> "None", result |-> NoFile]

NoBrowser == [state |-> "none", dir |-> 0, phase |-> "none"]

Init ==
    /\ services = [r \in Reqs |-> NoService]
    /\ disk = <<>>
    /\ browsers = [r \in Reqs |-> NoBrowser]
    /\ touched = {}
    /\ req \in Requests
    /\ debug \in IF req.entry \in WebEntries THEN BOOLEAN ELSE {FALSE}
    /\ pc = "request"
    /\ image_bytes = NoBytes
    /\ squoosh = "None"
    /\ driver = "None"
    /\ chrome = "none"
    /\ temp_dir = "none"
    /\ files = NoFiles
    /\ temp_input_path = "None"
    /\ page = NoPage
    /\ download = NoDownload
    /\ files_before = {}
    /\ attempt = 0
    /\ compressed_path = "None"
    /\ compressed_bytes = NoBytes
    /\ stats = NoStats
    /\ exc = NoExc
    /\ response = NoResponse
    /\ log = {}
    /\ calls = {}

(***************************************************************************)
(* The framework's validation of a request against its declared model.     *)
(***************************************************************************)
\* CompressionRequest: format is a CompressionFormat, quality is in
\* [1,100], image_base64 passes validate_base64 (which keeps the stripped
\* string).  A request that fails is answered 422 and no handler runs.
ValidateBase64Request ==
    /\ pc = "request"
    /\ req.entry = "base64"
    /\ IF /\ req.format \in CompressionFormat
          /\ QualityInRange(req.quality)
          /\ ValidBase64(req.image_base64)
       THEN /\ req' = [req EXCEPT !.image_base64 = StripDataUrl(@)]
            /\ pc' = "b64_decode"
            /\ response' = response
       ELSE /\ req' = req
            /\ pc' = "done"
            /\ response' = ErrorResponse(422, "validation error", "None")
    /\ UNCHANGED <<twoVars, debug, image_bytes, serviceVars, files,
                   temp_input_path, browserVars, downloadVars,
                   compressed_bytes, stats, exc, log, calls>>

\* compress_image_upload's parameters: format: CompressionFormat,
\* quality: int = Form(default=80, ge=1, le=100)
ValidateUploadRequest ==
    /\ pc = "request"
    /\ req.entry = "upload"
    /\ IF req.format \in CompressionFormat /\ QualityInRange(req.quality)
       THEN /\ pc' = "upload_check"
            /\ response' = response
       ELSE /\ pc' = "done"
            /\ response' = ErrorResponse(422, "validation error", "None")
    /\ UNCHANGED <<twoVars, debug, requestVars, serviceVars, files,
                   temp_input_path, browserVars, downloadVars,
                   compressed_bytes, stats, exc, log, calls>>

(***************************************************************************)
(* The handlers, up to the construction of the service.                    *)
(***************************************************************************)
\* compress_image_base64: base64.b64decode, or HTTPException(400)
Base64Decode ==
    /\ pc = "b64_decode"
    /\ IF B64DecodeOk(req.image_base64)
       THEN /\ image_bytes' = req.bytes
            /\ pc' = "construct"
            /\ exc' = exc
       ELSE /\ image_bytes' = image_bytes
            /\ pc' = "handler_except"
            /\ exc' = HTTPException(400, "Error decoding base64")
    /\ UNCHANGED <<twoVars, debug, req, serviceVars, files, temp_input_path,
                   browserVars, downloadVars, resultVars, log, calls>>

\* The service constructed ahead of the checks of the upload.
MutConstructBeforeCheck ==
    /\ pc = "upload_check"
    /\ squoosh' = "service"
    /\ temp_dir' = "exists"
    /\ calls' = calls \cup {"SquooshService"}
    /\ IF ~IsImageContentType(req.content_type)
       THEN /\ image_bytes' = image_bytes
            /\ pc' = "handler_except"
            /\ exc' = HTTPException(400, "File must be an image")
       ELSE IF len(req.bytes) = 0
       THEN /\ image_bytes' = req.bytes
            /\ pc' = "handler_except"
            /\ exc' = HTTPException(400, "File is empty")
       ELSE /\ image_bytes' = req.bytes
            /\ pc' = "handler_create_driver"
            /\ exc' = exc
    /\ UNCHANGED <<twoVars, debug, req, driver, chrome, files,
                   temp_input_path, browserVars, downloadVars, resultVars,
                   log>>

\* compress_image_upload: the content type check, file.read(), the empty
\* file check

UploadCheck ==
    /\ pc = "upload_check"
    /\ IF ~IsImageContentType(req.content_type)
       THEN /\ image_bytes' = image_bytes
            /\ pc' = "handler_except"
            /\ exc' = HTTPException(400, "File must be an image")
       ELSE IF len(req.bytes) = 0
       THEN /\ image_bytes' = req.bytes
            /\ pc' = "handler_except"
            /\ exc' = HTTPException(400, "File is empty")
       ELSE /\ image_bytes' = req.bytes
            /\ pc' = "construct"
            /\ exc' = exc
    /\ UNCHANGED <<twoVars, debug, req, serviceVars, files, temp_input_path,
                   browserVars, downloadVars, resultVars, log, calls>>

\* squoosh = SquooshService(): __init__ creates the temporary directory.
Construct ==
    /\ pc = "construct"
    /\ squoosh' = "service"
    /\ temp_dir' = "exists"
    /\ pc' = "handler_create_driver"
    /\ calls' = calls \cup {"SquooshService"}
    /\ UNCHANGED <<twoVars, debug, requestVars, driver, chrome, files,
                   temp_input_path, browserVars, downloadVars, resultVars, exc,
                   log>>

\* squoosh.create_driver() in the handler: webdriver.Chrome starts, or the
\* error is raised again as Exception("Error configuring Chrome driver").
HandlerCreateDriver ==
    /\ pc = "handler_create_driver"
    /\ calls' = calls \cup {"create_driver"}
    /\ \E ok \in BOOLEAN :
         IF ok
         THEN /\ driver' = "chrome"
              /\ chrome' = "running"
              /\ pc' = "compress"
              /\ exc' = exc
         ELSE /\ driver' = driver
              /\ chrome' = chrome
              /\ pc' = "handler_except"
              /\ exc' = Exc("Exception", "driver")
    /\ UNCHANGED <<twoVars, debug, requestVars, squoosh, temp_dir, files,
                   temp_input_path, browserVars, downloadVars, resultVars,
                   log>>

\* A direct caller: a fresh SquooshService, then compress_image_from_bytes.
DirectCall ==
    /\ pc = "request"
    /\ req.entry = "direct"
    /\ image_bytes' = req.bytes
    /\ squoosh' = "service"
    /\ temp_dir' = "exists"
    /\ pc' = "compress"
    /\ calls' = calls \cup {"SquooshService"}
    /\ UNCHANGED <<twoVars, debug, req, driver, chrome, files, temp_input_path,
                   browserVars, downloadVars, resultVars, exc, log>>


(***************************************************************************)
(* SquooshService.compress_image_from_bytes                                *)
(***************************************************************************)
\* The image check left out.
MutVerifySkipped(b) == TRUE

\* Image.open(BytesIO(image_bytes)); img.verify()

ImageVerifies(b) == b.kind \in ImageKinds

\* _cleanup_temp_files: the files of the directory without those named
\* (a path that is None-like or does not exist is skipped).
CleanedUp(fs, names) == [n \in (DOMAIN fs) \ names |-> fs[n]]

\* if not self.driver: self.create_driver()
EnsureDriver ==
    /\ pc = "compress"
    /\ calls' = calls \cup
                ({"compress_image_from_bytes"} \cup
                 IF driver = "None" THEN {"create_driver"} ELSE {})
    /\ \E ok \in BOOLEAN :
         IF driver # "None"
         THEN /\ pc' = "validate"
              /\ UNCHANGED <<driver, chrome, exc>>
         ELSE IF ok
         THEN /\ driver' = "chrome"
              /\ chrome' = "running"
              /\ pc' = "validate"
              /\ exc' = exc
         ELSE /\ pc' = "compress_except"
              /\ exc' = Exc("Exception", "driver")
              /\ UNCHANGED <<driver, chrome>>
    /\ UNCHANGED <<twoVars, debug, requestVars, squoosh, temp_dir, files,
                   temp_input_path, browserVars, downloadVars, resultVars,
                   log>>

\* Validate image: a failure of Image.open or verify is raised as
\* ValueError("Bytes do not correspond to a valid image")
ValidateImage ==
    /\ pc = "validate"
    /\ calls' = calls \cup {"Image.open"}
    /\ IF ImageVerifies(image_bytes)
       THEN /\ pc' = "write_input"
            /\ exc' = exc
       ELSE /\ pc' = "compress_except"
            /\ exc' = Exc("ValueError", "invalid_image")
    /\ UNCHANGED <<twoVars, debug, requestVars, serviceVars, files,
                   temp_input_path, browserVars, downloadVars, resultVars,
                   log>>

\* Create temporary input file: input_<time><ext> holds image_bytes (the
\* file name, and with it original_filename, plays no further part)
WriteInput ==
    /\ pc = "write_input"
    /\ temp_input_path' = "input"
    /\ files' = ("input" :> image_bytes) @@ files
    /\ pc' = "squoosh_get"
    /\ UNCHANGED <<twoVars, debug, requestVars, serviceVars, browserVars,
                   downloadVars, resultVars, exc, log, calls>>

(***************************************************************************)
(* SquooshService._compress_with_squoosh and _set_format.  An exception    *)
(* raised in them is raised again as Exception by each enclosing except    *)
(* clause, up to the one of compress_image_from_bytes.                     *)
(***************************************************************************)
\* self.driver.get("https://squoosh.app/editor")
SquooshGet ==
    /\ pc = "squoosh_get"
    /\ calls' = calls \cup {"driver.get"}
    /\ \E ok \in BOOLEAN :
         IF ok
         THEN /\ page' = [page EXCEPT !.loaded = TRUE]
              /\ pc' = "squoosh_upload"
              /\ exc' = exc
         ELSE /\ page' = page
              /\ pc' = "compress_except"
              /\ exc' = Exc("Exception", "squoosh_load")
    /\ UNCHANGED <<twoVars, debug, requestVars, serviceVars, files,
                   temp_input_path, download, downloadVars, resultVars, log>>

\* Upload image: wait for input[type='file'], send_keys(image_path): the
\* page is given the temporary input file as it was written
SquooshUpload ==
    /\ pc = "squoosh_upload"
    /\ \E ok \in BOOLEAN :
         IF ok
         THEN /\ page' = [page EXCEPT !.uploaded = TRUE,
                                       !.image = files[temp_input_path].kind]
              /\ pc' = "squoosh_canvas"
              /\ exc' = exc
         ELSE /\ page' = page
              /\ pc' = "compress_except"
              /\ exc' = Exc("Exception", "squoosh_upload")
    /\ UNCHANGED <<twoVars, debug, requestVars, serviceVars, files,
                   temp_input_path, download, downloadVars, resultVars, log,
                   calls>>

\* Wait for image to load: wait for the canvas
SquooshCanvas ==
    /\ pc = "squoosh_canvas"
    /\ \E ok \in BOOLEAN :
         IF ok
         THEN /\ pc' = "set_format"
              /\ exc' = exc
              /\ log' = log \cup {Info("Setting format", "format_type")}
         ELSE /\ pc' = "compress_except"
              /\ exc' = Exc("Exception", "squoosh_canvas")
              /\ log' = log
    /\ UNCHANGED <<twoVars, debug, requestVars, serviceVars, files,
                   temp_input_path, browserVars, downloadVars, resultVars,
                   calls>>

\* _set_format: look the encoder up, log it, set the <select> to it
SetFormat ==
    /\ pc = "set_format"
    /\ calls' = calls \cup {"_set_format"}
    /\ log' = log \cup {Info("Setting format to", FormatValue(req.format))}
    /\ \E ok \in BOOLEAN :
         IF ok
         THEN /\ page' = [page EXCEPT !.format = FormatValue(req.format)]
              /\ pc' = "set_quality"
              /\ exc' = exc
         ELSE /\ page' = page
              /\ pc' = "compress_except"
              /\ exc' = Exc("Exception", "set_format")
    /\ UNCHANGED <<twoVars, debug, requestVars, serviceVars, files,
                   temp_input_path, download, downloadVars, resultVars>>

\* _set_format: Adjust quality if available.  The range input is set to
\* the quality as given; a TimeoutException is logged and passed over, any
\* other exception is raised on.
SetQuality ==
    /\ pc = "set_quality"
    /\ \E outcome \in {"set", "timeout", "error"} :
         IF ~AdjustsQuality(req.format)
         THEN /\ pc' = "download_snapshot"
              /\ UNCHANGED <<page, exc, log>>
         ELSE IF outcome = "set"
         THEN /\ page' = [page EXCEPT !.quality = req.quality]
              /\ log' = log \cup {Info("Quality set to", "quality")}
              /\ pc' = "download_snapshot"
              /\ exc' = exc
         ELSE IF outcome = "timeout"
         THEN /\ log' = log \cup
                        {Warning("Quality control not available", "format_type")}
              /\ pc' = "download_snapshot"
              /\ UNCHANGED <<page, exc>>
         ELSE /\ pc' = "compress_except"
              /\ exc' = Exc("Exception", "set_quality")
              /\ UNCHANGED <<page, log>>
    /\ UNCHANGED <<twoVars, debug, requestVars, serviceVars, files,
                   temp_input_path, download, downloadVars, resultVars, calls>>


(***************************************************************************)
(* SquooshService._download_compressed, and the browser's side of it.      *)
(***************************************************************************)
\* The snapshot as of a directory still empty, before the input file.
MutSnapshotBeforeInput ==
    /\ pc = "download_snapshot"
    /\ files_before' = {}
    /\ attempt' = 0
    /\ pc' = "download_find"
    /\ calls' = calls \cup {"_download_compressed"}
    /\ UNCHANGED <<twoVars, debug, requestVars, serviceVars, files,
                   temp_input_path, browserVars, compressed_path,
                   resultVars, exc, log>>

\* files_before = set(os.listdir(self.temp_dir))

DownloadSnapshot ==
    /\ pc = "download_snapshot"
    /\ files_before' = DOMAIN files
    /\ attempt' = 0
    /\ pc' = "download_find"
    /\ calls' = calls \cup {"_download_compressed"}
    /\ UNCHANGED <<twoVars, debug, requestVars, serviceVars, files,
                   temp_input_path, browserVars, compressed_path, resultVars,
                   exc, log>>

\* One pass of "for attempt in range(max_attempts)": an enabled, displayed
\* a[download] link is found, or (none yet, or find_elements raised) the
\* loop sleeps and goes on.
DownloadFind ==
    /\ pc = "download_find"
    /\ attempt < MaxAttempts
    /\ \E found \in BOOLEAN :
         IF found
         THEN /\ pc' = "download_click"
              /\ attempt' = attempt
         ELSE /\ pc' = pc
              /\ attempt' = attempt + 1
    /\ UNCHANGED <<twoVars, debug, requestVars, serviceVars, files,
                   temp_input_path, browserVars, files_before, compressed_path,
                   resultVars, exc, log, calls>>

\* if not download_link: raise Exception("No enabled download button ...")
DownloadNoLink ==
    /\ pc = "download_find"
    /\ attempt = MaxAttempts
    /\ pc' = "compress_except"
    /\ exc' = Exc("Exception", "no_download_link")
    /\ UNCHANGED <<twoVars, debug, requestVars, serviceVars, files,
                   temp_input_path, browserVars, downloadVars, resultVars, log,
                   calls>>

\* Click download: scrollIntoView and click, or the error raised on
DownloadClick ==
    /\ pc = "download_click"
    /\ \E ok \in BOOLEAN :
         IF ok
         THEN /\ download' = [download EXCEPT !.phase = "clicked"]
              /\ calls' = calls \cup {"click"}
              /\ attempt' = 0
              /\ pc' = "download_wait"
              /\ exc' = exc
         ELSE /\ pc' = "compress_except"
              /\ exc' = Exc("Exception", "click")
              /\ UNCHANGED <<download, calls, attempt>>
    /\ UNCHANGED <<twoVars, debug, requestVars, serviceVars, files,
                   temp_input_path, page, files_before, compressed_path,
                   resultVars, log>>

\* The content of a download of which n of total bytes are written.
FileContent(n, total, kind) ==
    IF n = 0 THEN EmptyBuffer
    ELSE IF n < total THEN [size |-> n, kind |-> "partial"]
    ELSE [size |-> total, kind |-> kind]

\* Chrome, told by the "download.default_directory" preference to save into
\* temp_dir, creates the download under its in-progress name ...
BrowserCreateFile ==
    /\ chrome = "running"
    /\ temp_dir = "exists"
    /\ download.phase = "clicked"
    /\ \E total \in 1..MaxOut :
         download' = [phase |-> "writing", total |-> total,
                      kind |-> page.format]
    /\ files' = ("crdownload" :> EmptyBuffer) @@ files
    /\ UNCHANGED <<twoVars, debug, requestVars, pc, serviceVars,
                   temp_input_path, page, downloadVars, resultVars, exc, log,
                   calls>>

\* ... writes the encoded bytes to it ...
BrowserWrite ==
    /\ chrome = "running"
    /\ temp_dir = "exists"
    /\ download.phase = "writing"
    /\ "crdownload" \in DOMAIN files
    /\ \E n \in (len(files["crdownload"]) + 1)..download.total :
         files' = [files EXCEPT !["crdownload"] =
                      FileContent(n, download.total, download.kind)]
    /\ UNCHANGED <<twoVars, debug, requestVars, pc, serviceVars,
                   temp_input_path, browserVars, downloadVars, resultVars, exc,
                   log, calls>>

\* ... and renames it to the name the link gives once it is complete.
BrowserRename ==
    /\ chrome = "running"
    /\ temp_dir = "exists"
    /\ download.phase = "writing"
    /\ "crdownload" \in DOMAIN files
    /\ len(files["crdownload"]) = download.total
    /\ files' = ("output" :> files["crdownload"]) @@
                CleanedUp(files, {"crdownload"})
    /\ download' = [download EXCEPT !.phase = "complete"]
    /\ UNCHANGED <<twoVars, debug, requestVars, pc, serviceVars,
                   temp_input_path, page, downloadVars, resultVars, exc, log,
                   calls>>

\* One pass of "for attempt in range(30)": sleep, list the directory, and
\* return a file that was not there before, if there is one.
DownloadWait ==
    /\ pc = "download_wait"
    /\ attempt < WaitAttempts
    /\ LET new_files == (DOMAIN files) \ files_before
       IN  IF new_files # {}
           THEN /\ \E f \in new_files : compressed_path' = f
                /\ pc' = "exists"
                /\ attempt' = attempt
           ELSE /\ compressed_path' = compressed_path
                /\ pc' = pc
                /\ attempt' = attempt + 1
    /\ UNCHANGED <<twoVars, debug, requestVars, serviceVars, files,
                   temp_input_path, browserVars, files_before, resultVars, exc,
                   log, calls>>

\* raise Exception("Timeout waiting for download")
DownloadTimeout ==
    /\ pc = "download_wait"
    /\ attempt = WaitAttempts
    /\ pc' = "compress_except"
    /\ exc' = Exc("Exception", "download_timeout")
    /\ UNCHANGED <<twoVars, debug, requestVars, serviceVars, files,
                   temp_input_path, browserVars, downloadVars, resultVars, log,
                   calls>>


(***************************************************************************)
(* compress_image_from_bytes, after _compress_with_squoosh.                *)
(***************************************************************************)
\* What a direct caller gets: the value returned, or the exception raised.
Returned == [NoResponse EXCEPT !.detail = "returned"]

Raised(type, text) ==
    [NoResponse EXCEPT !.detail = "raised", !.raised = type, !.cause = text]

\* if compressed_path and os.path.exists(compressed_path): ... else
\* return None
Exists ==
    /\ pc = "exists"
    /\ IF compressed_path \in DOMAIN files
       THEN /\ pc' = "read"
            /\ response' = response
            /\ calls' = calls
       ELSE /\ pc' = IF req.entry = "direct" THEN "done" ELSE "handler_check"
            /\ response' = IF req.entry = "direct" THEN Returned ELSE response
            /\ calls' = calls \cup {"return"}
    /\ UNCHANGED <<twoVars, debug, requestVars, serviceVars, files,
                   temp_input_path, browserVars, downloadVars,
                   compressed_bytes, stats, exc, log>>

\* Read compressed image, clean up the two temporary files, return the
\* bytes read; open() raises when the file is no longer there.
Read ==
    /\ pc = "read"
    /\ IF compressed_path \in DOMAIN files
       THEN /\ compressed_bytes' = files[compressed_path]
            /\ files' = CleanedUp(files, {temp_input_path, compressed_path})
            /\ pc' = IF req.entry = "direct" THEN "done" ELSE "handler_check"
            /\ response' = IF req.entry = "direct" THEN Returned ELSE response
            /\ exc' = exc
            /\ calls' = calls \cup {"return"}
       ELSE /\ pc' = "compress_except"
            /\ exc' = Exc("FileNotFoundError", "read")
            /\ UNCHANGED <<compressed_bytes, files, response, calls>>
    /\ UNCHANGED <<twoVars, debug, requestVars, serviceVars, temp_input_path,
                   browserVars, downloadVars, stats, log>>

\* except Exception as e: clean up the temporary input file if there is
\* one, raise Exception(f"Error compressing image: {e}")
CompressExcept ==
    /\ pc = "compress_except"
    /\ files' = IF temp_input_path # "None"
                THEN CleanedUp(files, {temp_input_path})
                ELSE files
    /\ exc' = Exc("Exception", exc.text)
    /\ pc' = IF req.entry = "direct" THEN "done" ELSE "handler_except"
    /\ response' = IF req.entry = "direct"
                   THEN Raised("Exception", exc.text)
                   ELSE response
    /\ UNCHANGED <<twoVars, debug, requestVars, serviceVars, temp_input_path,
                   browserVars, downloadVars, compressed_bytes, stats, log,
                   calls>>

(***************************************************************************)
(* The handlers, after compress_image_from_bytes.                          *)
(***************************************************************************)
\* "compressed_bytes is None" in place of "not compressed_bytes"
MutOnlyNone(b) == b = NoBytes

\* "not compressed_bytes": None, or no bytes

NotBytes(b) == b = NoBytes \/ len(b) = 0

\* if not compressed_bytes: raise HTTPException(status_code=500, ...)
HandlerCheck ==
    /\ pc = "handler_check"
    /\ IF NotBytes(compressed_bytes)
       THEN /\ pc' = "handler_except"
            /\ exc' = HTTPException(500, "Error during image compression")
       ELSE /\ pc' = "handler_stats"
            /\ exc' = exc
    /\ UNCHANGED <<twoVars, debug, requestVars, serviceVars, files,
                   temp_input_path, browserVars, downloadVars, resultVars, log,
                   calls>>

\* stats = squoosh.get_compression_stats(image_bytes, compressed_bytes)
HandlerStats ==
    /\ pc = "handler_stats"
    /\ calls' = calls \cup {"get_compression_stats"}
    /\ \E r \in get_compression_stats(image_bytes, compressed_bytes) :
         /\ stats' = r
         /\ IF r.raised = "None"
            THEN /\ pc' = "handler_respond"
                 /\ exc' = exc
            ELSE /\ pc' = "handler_except"
                 /\ exc' = Exc(r.raised, "stats")
    /\ UNCHANGED <<twoVars, debug, requestVars, serviceVars, files,
                   temp_input_path, browserVars, downloadVars,
                   compressed_bytes, response, log>>

\* return CompressionResponse(..., format=request.format.value,
\* quality=request.quality, stats=stats, ...)
HandlerRespond ==
    /\ pc = "handler_respond"
    /\ response' = [NoResponse EXCEPT !.status = 200, !.detail = "success",
                                      !.format = req.format,
                                      !.quality = req.quality,
                                      !.stats = stats]
    /\ pc' = "handler_finally"
    /\ UNCHANGED <<twoVars, debug, requestVars, serviceVars, files,
                   temp_input_path, browserVars, downloadVars,
                   compressed_bytes, stats, exc, log, calls>>

\* except HTTPException: raise
\* except Exception as e: raise HTTPException(status_code=500,
\*                            detail=f"Internal server error: {str(e)}")
HandlerExcept ==
    /\ pc = "handler_except"
    /\ response' = IF exc.type = "HTTPException"
                   THEN ErrorResponse(exc.status, exc.text, "None")
                   ELSE ErrorResponse(500, "Internal server error", exc.text)
    /\ pc' = "handler_finally"
    /\ UNCHANGED <<twoVars, debug, requestVars, serviceVars, files,
                   temp_input_path, browserVars, downloadVars,
                   compressed_bytes, stats, exc, log, calls>>

\* close_driver without its try/except/finally: a failing quit() leaves
\* the driver set and is raised on.
MutCloseDriverUnguarded(d, c, quitRaises) ==
    IF d = "None" THEN [driver |-> d, chrome |-> c, raised |-> FALSE]
    ELSE IF quitRaises THEN [driver |-> d, chrome |-> c, raised |-> TRUE]
    ELSE [driver |-> "None", chrome |-> "quit", raised |-> FALSE]

\* close_driver: if self.driver: try quit(); except: log; finally:
\* self.driver = None
close_driver(d, c, quitRaises) ==
    IF d = "None" THEN [driver |-> d, chrome |-> c, raised |-> FALSE]
    ELSE [driver |-> "None",
          chrome |-> IF quitRaises THEN c ELSE "quit",
          raised |-> FALSE]

\* close: close_driver(), then shutil.rmtree(self.temp_dir) if it exists.
\* An exception out of close_driver leaves the rest undone.
close(d, c, t, fs, quitRaises) ==
    LET cd == close_driver(d, c, quitRaises)
        rm == ~cd.raised /\ t = "exists"
    IN  [driver |-> cd.driver, chrome |-> cd.chrome,
         temp_dir |-> IF rm THEN "deleted" ELSE t,
         files |-> IF rm THEN NoFiles ELSE fs,
         quit_failed |-> d # "None" /\ quitRaises]

\* finally: if squoosh: try: squoosh.close() except: log a warning
HandlerFinally ==
    /\ pc = "handler_finally"
    /\ IF squoosh # "None"
       THEN \E quitRaises \in BOOLEAN :
              LET c == close(driver, chrome, temp_dir, files, quitRaises)
              IN  /\ driver' = c.driver
                  /\ chrome' = c.chrome
                  /\ temp_dir' = c.temp_dir
                  /\ files' = c.files
                  /\ calls' = calls \cup {"close"}
                  /\ log' = IF c.quit_failed
                            THEN log \cup {Warning("Warning closing driver",
                                                   "quit")}
                            ELSE log
       ELSE UNCHANGED <<driver, chrome, temp_dir, files, calls, log>>
    /\ pc' = "done"
    /\ UNCHANGED <<twoVars, debug, requestVars, squoosh, temp_input_path,
                   browserVars, downloadVars, resultVars, exc>>

\* get_compression_stats called by a direct caller on two buffers.
StatsCall ==
    /\ pc = "request"
    /\ req.entry = "stats"
    /\ image_bytes' = req.bytes
    /\ compressed_bytes' = req.compressed
    /\ calls' = calls \cup {"get_compression_stats"}
    /\ \E r \in get_compression_stats(req.bytes, req.compressed) :
         /\ stats' = r
         /\ response' = IF r.raised = "None"
                        THEN Returned
                        ELSE Raised(r.raised, "stats")
    /\ pc' = "done"
    /\ UNCHANGED <<twoVars, debug, req, serviceVars, files, temp_input_path,
                   browserVars, downloadVars, exc, log>>

\* main.py, global_exception_handler: status 500, "Internal server error",
\* "details": str(exc) if os.getenv("DEBUG") else None
global_exception_handler(e, dbg) ==
    ErrorResponse(500, "Internal server error",
                  IF dbg THEN e.text ELSE "None")

\* An exception that leaves a route reaches the application's handler for
\* Exception.
GlobalExceptionHandler ==
    /\ pc = "request"
    /\ req.entry = "unhandled"
    /\ exc' = Exc("Exception", "unhandled")
    /\ response' = global_exception_handler(exc', debug)
    /\ pc' = "done"
    /\ UNCHANGED <<twoVars, debug, requestVars, serviceVars, files,
                   temp_input_path, browserVars, downloadVars,
                   compressed_bytes, stats, log, calls>>

Next ==
    \/ ValidateBase64Request
    \/ ValidateUploadRequest
    \/ Base64Decode
    \/ UploadCheck
    \/ Construct
    \/ HandlerCreateDriver
    \/ DirectCall
    \/ EnsureDriver
    \/ ValidateImage
    \/ WriteInput
    \/ SquooshGet
    \/ SquooshUpload
    \/ SquooshCanvas
    \/ SetFormat
    \/ SetQuality
    \/ DownloadSnapshot
    \/ DownloadFind
    \/ DownloadNoLink
    \/ DownloadClick
    \/ BrowserCreateFile
    \/ BrowserWrite
    \/ BrowserRename
    \/ DownloadWait
    \/ DownloadTimeout
    \/ Exists
    \/ Read
    \/ CompressExcept
    \/ HandlerCheck
    \/ HandlerStats
    \/ HandlerRespond
    \/ HandlerExcept
    \/ HandlerFinally
    \/ StatsCall
    \/ GlobalExceptionHandler

Spec == Init /\ [][Next]_vars

(***************************************************************************)
(* Two requests at once.  Each handler call has its own local squoosh; the *)
(* temporary directories live in one file system and the browsers are      *)
(* processes of one machine.  Both requests carry a valid image; the steps *)
(* of a request that touch only its own Squoosh page (load, upload, format,*)
(* quality, the search for the download link) are one step with the click. *)
(***************************************************************************)
\* Every request is given the one same directory.
MutSharedDir(d) == 1

\* tempfile.mkdtemp(): a directory that did not exist, under a name no
\* directory had before.

mkdtemp(d) == Len(d) + 1

DirExists(d) == d \in DOMAIN disk /\ disk[d].exists

\* os.remove(path) of _cleanup_temp_files, for the names that exist in d
RemoveFiles(d, names) ==
    [disk EXCEPT ![d].files =
        [n \in (DOMAIN disk[d].files) \ names |-> disk[d].files[n]]]

\* What a request touches when it removes the files named from d.
Removals(r, d, names) ==
    {<<r, "delete", disk[d].files[n].owner>> :
        n \in names \cap DOMAIN disk[d].files}

\* squoosh = SquooshService(): __init__ makes the temporary directory
TwoConstruct(r) ==
    /\ services[r].pc = "request"
    /\ LET d == mkdtemp(disk)
       IN  /\ disk' = IF d \in DOMAIN disk
                      THEN [disk EXCEPT ![d].exists = TRUE]
                      ELSE Append(disk, [exists |-> TRUE, owner |-> r,
                                         files |-> NoOwnedFiles])
           /\ services' = [services EXCEPT ![r].pc = "create_driver",
                                           ![r].temp_dir = d]
    /\ UNCHANGED <<singleVars, browsers, touched>>

\* squoosh.create_driver(): webdriver.Chrome starts a browser of its own,
\* whose "download.default_directory" is self.temp_dir; or raises
TwoCreateDriver(r) ==
    /\ services[r].pc = "create_driver"
    /\ \E ok \in BOOLEAN :
         IF ok
         THEN /\ browsers' = [browsers EXCEPT ![r] =
                     [state |-> "running", dir |-> services[r].temp_dir,
                      phase |-> "idle"]]
              /\ services' = [services EXCEPT ![r].pc = "write_input",
                                              ![r].driver = r]
         ELSE /\ browsers' = browsers
              /\ services' = [services EXCEPT ![r].pc = "close"]
    /\ UNCHANGED <<singleVars, disk, touched>>

\* compress_image_from_bytes: the temporary input file, input_<time><ext>,
\* in self.temp_dir (two requests of one second use one name)
TwoWriteInput(r) ==
    /\ services[r].pc = "write_input"
    /\ LET d == services[r].temp_dir
       IN  IF DirExists(d)
           THEN /\ disk' = [disk EXCEPT ![d].files =
                               ("input" :> OwnedFile(r, "input")) @@ @]
                /\ services' = [services EXCEPT
                                   ![r].pc = "snapshot",
                                   ![r].temp_input_path = "input"]
           ELSE /\ disk' = disk
                /\ services' = [services EXCEPT ![r].pc = "except"]
    /\ UNCHANGED <<singleVars, browsers, touched>>

\* _download_compressed: files_before = set(os.listdir(self.temp_dir))
TwoSnapshot(r) ==
    /\ services[r].pc = "snapshot"
    /\ LET d == services[r].temp_dir
       IN  services' =
             IF DirExists(d)
             THEN [services EXCEPT
                      ![r].pc = "click",
                      ![r].files_before = DOMAIN disk[d].files]
             ELSE [services EXCEPT ![r].pc = "except"]
    /\ UNCHANGED <<singleVars, disk, browsers, touched>>

\* The download link of the request's own page is found and clicked, or a
\* step up to there raised.
TwoClick(r) ==
    /\ services[r].pc = "click"
    /\ \E ok \in BOOLEAN :
         IF ok /\ browsers[services[r].driver].state = "running"
         THEN /\ browsers' = [browsers EXCEPT
                                 ![services[r].driver].phase = "clicked"]
              /\ services' = [services EXCEPT ![r].pc = "wait",
                                              ![r].attempt = 0]
         ELSE /\ browsers' = browsers
              /\ services' = [services EXCEPT ![r].pc = "except"]
    /\ UNCHANGED <<singleVars, disk, touched>>

\* The browser of request r saves its download into its download
\* directory.
TwoBrowserSave(r) ==
    /\ browsers[r].state = "running"
    /\ browsers[r].phase = "clicked"
    /\ DirExists(browsers[r].dir)
    /\ disk' = [disk EXCEPT ![browsers[r].dir].files =
                   ("output" :> OwnedFile(r, "output")) @@ @]
    /\ browsers' = [browsers EXCEPT ![r].phase = "saved"]
    /\ UNCHANGED <<singleVars, services, touched>>

\* One pass of the wait loop: list self.temp_dir, return a file that was
\* not in files_before
TwoWait(r) ==
    /\ services[r].pc = "wait"
    /\ services[r].attempt < WaitAttempts
    /\ LET d == services[r].temp_dir
           new_files == (DOMAIN disk[d].files) \ services[r].files_before
       IN  IF ~DirExists(d)
           THEN services' = [services EXCEPT ![r].pc = "except"]
           ELSE IF new_files # {}
           THEN \E f \in new_files :
                  services' = [services EXCEPT ![r].pc = "read",
                                               ![r].compressed_path = f]
           ELSE services' = [services EXCEPT ![r].attempt = @ + 1]
    /\ UNCHANGED <<singleVars, disk, browsers, touched>>

\* raise Exception("Timeout waiting for download")
TwoTimeout(r) ==
    /\ services[r].pc = "wait"
    /\ services[r].attempt = WaitAttempts
    /\ services' = [services EXCEPT ![r].pc = "except"]
    /\ UNCHANGED <<singleVars, disk, browsers, touched>>

\* compress_image_from_bytes: read the compressed file, remove it and the
\* input file, return the bytes; with no such file, return None
TwoRead(r) ==
    /\ services[r].pc = "read"
    /\ LET d == services[r].temp_dir
           path == services[r].compressed_path
           names == {services[r].temp_input_path, path}
       IN  IF DirExists(d) /\ path \in DOMAIN disk[d].files
           THEN /\ services' = [services EXCEPT
                                   ![r].pc = "close",
                                   ![r].result = disk[d].files[path]]
                /\ touched' = touched \cup Removals(r, d, names) \cup
                      {<<r, "read", disk[d].files[path].owner>>,
                       <<r, "return", disk[d].files[path].owner>>}
                /\ disk' = RemoveFiles(d, names)
           ELSE /\ services' = [services EXCEPT ![r].pc = "close"]
                /\ UNCHANGED <<touched, disk>>
    /\ UNCHANGED <<singleVars, browsers>>

\* except Exception: remove the temporary input file, raise
TwoExcept(r) ==
    /\ services[r].pc = "except"
    /\ LET d == services[r].temp_dir
           names == {services[r].temp_input_path}
       IN  IF DirExists(d)
           THEN /\ touched' = touched \cup Removals(r, d, names)
                /\ disk' = RemoveFiles(d, names)
           ELSE UNCHANGED <<touched, disk>>
    /\ services' = [services EXCEPT ![r].pc = "close"]
    /\ UNCHANGED <<singleVars, browsers>>

\* finally: squoosh.close(): self.driver.quit() (an error of it is logged),
\* self.driver = None, shutil.rmtree(self.temp_dir) if it exists
TwoClose(r) ==
    /\ services[r].pc = "close"
    /\ LET d == services[r].temp_dir
           b == services[r].driver
       IN  /\ \E quitRaises \in BOOLEAN :
                browsers' = IF b # 0 /\ ~quitRaises
                            THEN [browsers EXCEPT ![b].state = "quit"]
                            ELSE browsers
           /\ disk' = IF DirExists(d)
                      THEN [disk EXCEPT ![d].exists = FALSE,
                                        ![d].files = NoOwnedFiles]
                      ELSE disk
           /\ touched' = touched \cup
                 (IF b # 0 THEN {<<r, "quit", b>>} ELSE {}) \cup
                 (IF DirExists(d)
                  THEN {<<r, "rmtree", disk[d].owner>>} \cup
                       Removals(r, d, DOMAIN disk[d].files)
                  ELSE {})
    /\ services' = [services EXCEPT ![r].pc = "done", ![r].driver = 0]
    /\ UNCHANGED singleVars

NextTwo ==
    \E r \in Reqs :
        \/ TwoConstruct(r)
        \/ TwoCreateDriver(r)
        \/ TwoWriteInput(r)
        \/ TwoSnapshot(r)
        \/ TwoClick(r)
        \/ TwoBrowserSave(r)
        \/ TwoWait(r)
        \/ TwoTimeout(r)
        \/ TwoRead(r)
        \/ TwoExcept(r)
        \/ TwoClose(r)

\* The two requests run; the single request of Spec is left where it is.
InitTwo == Init /\ req \in UnhandledRequests /\ ~debug

SpecTwo == InitTwo /\ [][NextTwo]_vars



(***************************************************************************)
(* Properties.                                                             *)
(***************************************************************************)
Abs(x) == IF x < 0 THEN -x ELSE x

\* h is a hundredth nearest to num/den.
Nearest(h, num, den) == 2 * Abs(h * den - num) <= den

\* Two tokens that differ at most in the case of their letters.
EqIgnoreCase(s, t) ==
    /\ Len(s) = Len(t)
    /\ \A i \in 1..Len(s) :
         \/ s[i] = t[i]
         \/ s[i] \in LowerLetters /\ UpperOf[s[i]] = t[i]
         \/ t[i] \in LowerLetters /\ UpperOf[t[i]] = s[i]

IsToken(f, names) == \E t \in names : EqIgnoreCase(f, t)

HandlerDone == pc = "done" /\ req.entry \in HttpEntries

C2_DegenerateInputTyped ==
    (/\ pc = "done"
     /\ req.entry = "stats"
     /\ len(req.bytes) > 0
     /\ len(req.compressed) = 0) =>
        /\ response.detail = "raised"
        /\ response.raised = "DegenerateInput"

\* C3: for two non-empty buffers get_compression_stats returns, and what it
\* returns is the two lengths, the reduction in percent to the nearest
\* hundredth and the ratio to the nearest hundredth (4000 and 1200 bytes
\* give 70.00 and 3.33); the contents of the buffers play no part.
C3_StatsFormula ==
    LET o == len(image_bytes)
        c == len(compressed_bytes)
    IN  ("get_compression_stats" \in calls /\ o > 0 /\ c > 0) =>
            /\ stats.raised = "None"
            /\ stats.original_size = o
            /\ stats.compressed_size = c
            /\ Nearest(stats.reduction_percent, (o - c) * 10000, o)
            /\ Nearest(stats.compression_ratio, o * 100, c)
            /\ (o = 4000 /\ c = 1200) =>
                   /\ stats.reduction_percent = 7000
                   /\ stats.compression_ratio = 333

\* The documented example, on two buffers of different content.
C3_Witness ==
    /\ pc = "done"
    /\ req.entry = "stats"
    /\ req.bytes = [size |-> 4000, kind |-> "image"]
    /\ req.compressed = [size |-> 1200, kind |-> "garbage"]
    /\ stats.reduction_percent = 7000
    /\ stats.compression_ratio = 333

\* C4: a handler calls get_compression_stats only with a non-empty original
\* and a non-empty compressed buffer, a 200 response carries
\* compressed_size > 0, and a compress_image_from_bytes that returned None
\* or no bytes is answered with a server error without stats being called.
C4_NoEmptyResult ==
    req.entry \in HttpEntries =>
        /\ "get_compression_stats" \in calls =>
               len(image_bytes) > 0 /\ len(compressed_bytes) > 0
        /\ response.status = 200 =>
               /\ response.stats.compressed_size > 0
               /\ len(compressed_bytes) > 0
        /\ (pc = "done" /\ "return" \in calls /\ len(compressed_bytes) <= 0) =>
               /\ response.status >= 500
               /\ response.status <= 599
               /\ "get_compression_stats" \notin calls

\* A download read before the browser had written a byte of it.
C4_Witness ==
    /\ HandlerDone
    /\ "return" \in calls
    /\ compressed_bytes = EmptyBuffer
    /\ response.status = 500
    /\ "get_compression_stats" \notin calls

\* C5: once compress_image_from_bytes is called with bytes that are not a
\* valid image (empty input included), no temporary input file is written,
\* the Squoosh page is never loaded, no format or quality is set, no
\* download is attempted, and the call does not return a result.
C5_InvalidImageStops ==
    ("compress_image_from_bytes" \in calls /\ image_bytes.kind \notin ImageKinds) =>
        /\ temp_input_path = "None"
        /\ files = NoFiles
        /\ page = NoPage
        /\ download = NoDownload
        /\ calls \cap {"driver.get", "_set_format", "_download_compressed",
                       "click", "return"} = {}
        /\ (pc = "done" /\ req.entry = "direct") => response.detail = "raised"
        /\ HandlerDone => response.status # 200

\* A direct call with the empty buffer, failed at the image check.
C5_Witness ==
    /\ pc = "done"
    /\ req.entry = "direct"
    /\ image_bytes = EmptyBuffer
    /\ "Image.open" \in calls
    /\ response.detail = "raised"
    /\ response.cause = "invalid_image"


\* The failures of the encode step: the browser, the Squoosh page, the
\* download.
EncodeFailures ==
    {"squoosh_load", "squoosh_upload", "squoosh_canvas", "set_format",
     "set_quality", "no_download_link", "click", "download_timeout", "read"}

ClientError(status) == status >= 400 /\ status <= 499

ServerError(status) == status >= 500 /\ status <= 599

\* C6: a handler answers an undecodable image and an out-of-range quality
\* with a client error (4xx), an encode failure and an empty result with a
\* server error (5xx).
C6_ErrorClasses ==
    HandlerDone =>
        /\ exc.text = "invalid_image" => ClientError(response.status)
        /\ (req.quality < 1 \/ req.quality > 100) =>
               ClientError(response.status)
        /\ exc.text \in EncodeFailures => ServerError(response.status)
        /\ ("return" \in calls /\ len(compressed_bytes) <= 0) =>
               ServerError(response.status)

\* C7: a request to /compress/base64 or /compress/upload whose quality is
\* outside [1,100] never gets past validation: no SquooshService, no
\* temporary directory, no browser, no image check, and the answer is the
\* validation error.
C7_QualityRejectedAtBoundary ==
    (req.entry \in HttpEntries /\ (req.quality < 1 \/ req.quality > 100)) =>
        /\ pc \in {"request", "done"}
        /\ squoosh = "None"
        /\ temp_dir = "none"
        /\ driver = "None"
        /\ chrome = "none"
        /\ calls = {}
        /\ pc = "done" => response.status = 422

\* A base64 request that is valid but for its quality of 0, rejected.
C7_Witness ==
    /\ pc = "done"
    /\ req.entry = "base64"
    /\ req.quality = 0
    /\ req.format = T_webp
    /\ req.image_base64.ok
    /\ req.bytes.kind = "image"
    /\ response.status = 422

\* C8: compress_image_from_bytes called directly with a quality outside
\* [1,100] never sets the Squoosh quality control to that value and never
\* returns a result.
C8_ComponentRejectsQuality ==
    (req.entry = "direct" /\ (req.quality < 1 \/ req.quality > 100)) =>
        /\ page.quality # req.quality
        /\ pc = "done" => response.detail # "returned"

JpegTokens == {T_mozjpeg, T_jpeg, T_jpg}

PngTokens == {T_oxipng, T_png}

FallbackFlagged ==
    \E l \in log : l.level = "WARNING" /\ l.event = "UnsupportedFormatFallback"

\* C10: a request for avif is encoded by the WebP encoder, and that
\* substitution, like the one for any token without an encoder, is flagged.
C10_FallbackSurfaced ==
    page.format # "none" =>
        /\ IsToken(req.format, {T_avif}) =>
               page.format = "webP" /\ FallbackFlagged
        /\ ~IsToken(req.format, FormatMapKeys) => FallbackFlagged

\* The token that names the family of an encoder of the Squoosh <select>.
FamilyToken(encoder) ==
    CASE encoder = "webP" -> T_webp
      [] encoder = "mozJPEG" -> T_mozjpeg
      [] encoder = "oxiPNG" -> T_oxipng
      [] encoder = "avif" -> T_avif
      [] encoder = "browserJPEG" -> T_browserjpeg
      [] encoder = "browserPNG" -> T_browserpng
      [] OTHER -> <<>>

\* C11: the format field of a 200 response names the family of the encoder
\* that produced the bytes (for the alias jpg: mozjpeg), not the token as it
\* was requested.
C11_FormatActuallyUsed ==
    response.status = 200 =>
        EqIgnoreCase(response.format, FamilyToken(page.format))

\* C12: with DEBUG unset, no error response - of the two /compress handlers
\* or of the global exception handler - carries the text of the exception
\* that caused it.
C12_NoExceptionTextWithoutDebug ==
    (/\ pc = "done"
     /\ req.entry \in WebEntries
     /\ response.status >= 400
     /\ ~debug) =>
        response.cause = "None"

\* C13: the bytes compress_image_from_bytes returns are those of the
\* complete download under its final name: as many bytes as the encoder
\* produced, never a file the browser was still writing or had not yet
\* renamed.
C13_CompleteDownloadReturned ==
    ("return" \in calls /\ compressed_bytes # NoBytes) =>
        /\ compressed_path = "output"
        /\ compressed_bytes.kind = page.format
        /\ len(compressed_bytes) = download.total

\* C14: under every interleaving of two requests, each has a temporary
\* directory and a browser of its own, and whatever a request reads,
\* returns, deletes or quits is something it created itself (or its own
\* browser did).
C14_NoSharedState ==
    /\ \A t \in touched : t[3] = t[1]
    /\ \A r \in Reqs :
          /\ services[r].result # NoFile =>
                 services[r].result = OwnedFile(r, "output")
          /\ services[r].driver \in {0, r}
          /\ \A q \in Reqs \ {r} :
                services[r].temp_dir # 0 =>
                    /\ services[r].temp_dir # services[q].temp_dir
                    /\ browsers[q].dir # services[r].temp_dir

\* Request 1 has returned its download and closed, having removed its
\* directory and quit its browser, while request 2, its input file
\* written and its link clicked, has polled its directory and waits on.
C14_Witness ==
    /\ services[1].pc = "done"
    /\ services[1].result = OwnedFile(1, "output")
    /\ {<<1, "rmtree", 1>>, <<1, "quit", 1>>, <<1, "read", 1>>} \subseteq touched
    /\ services[2].pc = "wait"
    /\ services[2].attempt > 0
    /\ DirExists(services[2].temp_dir)
    /\ "input" \in DOMAIN disk[services[2].temp_dir].files

\* C15: when the JPEG encoder is selected for an image that has an alpha
\* channel or a palette, the image the Squoosh page was given to encode is
\* an opaque one: the input was flattened before the upload.
C15_FlattenedBeforeJpeg ==
    (/\ IsToken(req.format, JpegTokens)
     /\ page.format = "mozJPEG"
     /\ image_bytes.kind = "alpha_image") =>
        page.image = "image"

\* C16: when the download step begins, the quality control holds the
\* requested quality (one of 1..100) if the token is webp, mozjpeg, jpeg, jpg, avif or one
\* without an encoder of its own (encoded as WebP), and was left alone if
\* the token is oxipng or png.
C16_QualityApplied ==
    ("_download_compressed" \in calls /\ QualityInRange(req.quality)) =>
        LET f == req.format
        IN  /\ (IsToken(f, QualityFormats) \/ ~IsToken(f, FormatMapKeys)) =>
                   page.quality = req.quality
            /\ IsToken(f, PngTokens) => page.quality = NoPage.quality

\* The positions of _download_compressed at which it polls.
Polling == {"download_find", "download_wait"}

\* C17: _download_compressed looks for the link at most 30 times and, after
\* the click, lists the directory at most 30 times; every pass that finds
\* nothing counts towards the 30, so the call ends: with a path, only after
\* a click, or with an error - without a click when no link was found, the
\* timeout when no new file appeared in 30 passes.
C17_DownloadTerminates ==
    /\ [](/\ pc \in Polling => attempt <= 30
          /\ exc.text = "no_download_link" =>
                 /\ "click" \notin calls
                 /\ download = NoDownload
                 /\ compressed_path = "None"
          /\ exc.text = "download_timeout" =>
                 /\ "click" \in calls
                 /\ attempt = 30
                 /\ compressed_path = "None"
          /\ compressed_path # "None" => "click" \in calls
          /\ pc \in {"exists", "read"} => compressed_path # "None")
    /\ [][(/\ pc \in Polling
            /\ pc' = pc
            /\ <<files, download>>' = <<files, download>>) =>
               attempt' = attempt + 1]_vars

\* The timeout: thirty passes after the click without a new file.
C17_Witness ==
    /\ pc = "compress_except"
    /\ exc.text = "download_timeout"
    /\ attempt = 30
    /\ "click" \in calls
    /\ download.phase = "clicked"

\* C18: a request that a handler answers, or is about to answer, with
\* status 400 has had no SquooshService constructed for it: no temporary
\* directory, no driver, no browser.
C18_RejectedBeforeConstruction ==
    (\/ response.status = 400
     \/ pc = "handler_except" /\ exc.status = 400) =>
        /\ squoosh = "None"
        /\ temp_dir = "none"
        /\ driver = "None"
        /\ chrome = "none"
        /\ "SquooshService" \notin calls
        /\ files = NoFiles

\* An upload declared image/png that holds no bytes, answered 400.
C18_Witness ==
    /\ HandlerDone
    /\ req.entry = "upload"
    /\ req.content_type = "image/png"
    /\ response.status = 400
    /\ response.detail = "File is empty"
    /\ squoosh = "None"
    /\ temp_dir = "none"

\* C19: the temporary input file is in the snapshot _download_compressed
\* takes, the path it returns is of a file that was not in the snapshot, so
\* never the input file, and the bytes compress_image_from_bytes returns
\* were written by the browser, never the bytes it was given.
C19_ReturnedFileIsNew ==
    /\ "_download_compressed" \in calls => temp_input_path \in files_before
    /\ compressed_path # "None" =>
           /\ compressed_path \notin files_before
           /\ compressed_path # temp_input_path
    /\ ("return" \in calls /\ compressed_bytes # NoBytes) =>
           /\ compressed_bytes.kind \notin ImageKinds
           /\ compressed_bytes.kind # "garbage"

\* A path returned while the input file is still in the directory.
C19_Witness ==
    /\ pc = "exists"
    /\ files_before = {"input"}
    /\ compressed_path = "output"
    /\ temp_input_path = "input"
    /\ {"input", "output"} \subseteq DOMAIN files

=============================================================================
